---- MODULE Spec2Model ----
(***************************************************************************)
(* Model of src/agent.py: the ten-stage support-ticket workflow, its two   *)
(* routers, the graph assembled on the StateGraph, and app.invoke.         *)
(*                                                                         *)
(* Python dicts are functions whose DOMAIN is the set of keys present; a   *)
(* subscript of an absent key raises KeyError.  The list held under        *)
(* state['log'] is one object that every stage appends to in place; the    *)
(* variable log holds its contents.  The check-mark glyph that starts the  *)
(* stage log messages is written "[v]".                                    *)
(***************************************************************************)
EXTENDS Integers, Sequences, FiniteSets, TLC

VARIABLES
    input,      \* the dict the caller passes to app.invoke (sample_input)
    provider,   \* "shipped": the clients of the source; "double": a scoring double
    state,      \* the graph's channel values: the dict handed to each stage
    log,        \* contents of the list object under 'log'
    calls,      \* capability invocations of the current run, in order
    scores,     \* the solution_score values returned in the current run
    node,       \* the node the engine is at
    status,     \* "running" | "done" | "failed"
    error,      \* the exception that ended the run, or "none"
    executed,   \* the stages whose function has been invoked in this run
    outcome,    \* one record per finished app.invoke: what the caller got
    runNo,      \* number of the current app.invoke
    reused,     \* the current run was started from an input object used before
    workflow,   \* the assembled graph the compiled app runs: nodes, entry, edges, tables
    runs        \* the app.invoke calls in flight side by side, one record each

vars == <<input, provider, state, log, calls, scores, node, status, error,
          executed, outcome, runNo, reused, workflow, runs>>

----------------------------------------------------------------------------
(* Bounds *)

MaxRuns == 2

----------------------------------------------------------------------------
(* Dict helpers *)

EmptyDict == <<>>

Put(d, k, v) == [x \in DOMAIN d \cup {k} |-> IF x = k THEN v ELSE d[x]]

Merge(a, b) == [x \in DOMAIN a \cup DOMAIN b |-> IF x \in DOMAIN b THEN b[x] ELSE a[x]]

IsPrefix(s, t) == Len(s) <= Len(t) /\ SubSeq(t, 1, Len(s)) = s

InSeq(x, s) == \E i \in DOMAIN s : s[i] = x

END == "__end__"

----------------------------------------------------------------------------
(* Input values.  Strings are concrete; the substring tests and the string *)
(* conversions of the capabilities are tabulated on them.                  *)

Q_SAMPLE  == "Hi, my Pro-Widget X is showing error code 42. I've tried restarting it but it didn't help. Can you assist?"
Q_UPPER   == "URGENT: Error Code 42 on my Pro-Widget X"
Q_BILLING == "How do I change my billing address?"
Q_CODE    == "I keep getting error code 42"
Q_WIDGET  == "My Pro-Widget X will not start"

Queries == {Q_SAMPLE, Q_UPPER, Q_BILLING, Q_CODE, Q_WIDGET}

TicketIds == {"TKT-78901", " tkt-42 "}

Priorities == {2, 4}

Scores == {0, 75, 89, 90, 95, 100}

\* "error code" in s.lower()
LowerHasErrorCode(s) ==
    s \in {Q_SAMPLE, Q_UPPER, Q_CODE, "Resolving Error Code 42 on Pro-Widget X"}

\* "urgent" in s.lower()
LowerHasUrgent(s) == s \in {Q_UPPER}

\* "Pro-Widget X" in s
HasProWidget(s) == s \in {Q_SAMPLE, Q_UPPER, Q_WIDGET}

\* "error code 42" in s  (case-sensitive)
HasErrorCode42(s) == s \in {Q_SAMPLE, Q_CODE}

\* s.strip().upper()
StripUpper(s) ==
    CASE s = "TKT-78901" -> "TKT-78901"
      [] s = " tkt-42 "  -> "TKT-42"
      [] OTHER           -> s

\* s[:30]
First30(s) ==
    CASE s = Q_SAMPLE  -> "Hi, my Pro-Widget X is showing"
      [] s = Q_UPPER   -> "URGENT: Error Code 42 on my Pr"
      [] s = Q_BILLING -> "How do I change my billing add"
      [] OTHER         -> s

----------------------------------------------------------------------------
(* CommonMcpClient *)

parse_request_text(query) ==
    IF LowerHasErrorCode(query)
    THEN [intent |-> "technical_support", structured_query |-> query]
    ELSE [intent |-> "general_inquiry", structured_query |-> query]

normalize_fields(ticket_id) == [normalized_ticket_id |-> StripUpper(ticket_id)]

\* priority * 1.5 is a float: calculated_priority is kept as a fraction num/den
add_flags_calculations(priority, query) ==
    LET is_urgent == LowerHasUrgent(query) \/ priority > 3
    IN  [is_urgent_flag |-> is_urgent,
         calculated_priority |-> IF is_urgent THEN [num |-> priority * 3, den |-> 2]
                                              ELSE [num |-> priority, den |-> 1]]

\* the scoring with the branches of the conditional exchanged
ScoreOf_swapped(kb_article) ==
    LET title == IF "title" \in DOMAIN kb_article THEN kb_article["title"] ELSE ""
    IN  IF LowerHasErrorCode(title) THEN 75 ELSE 95

ScoreOf(kb_article) ==
    LET title == IF "title" \in DOMAIN kb_article THEN kb_article["title"] ELSE ""
    IN  IF LowerHasErrorCode(title) THEN 95 ELSE 75

solution_evaluation(kb_article) == [solution_score |-> ScoreOf(kb_article)]

\* defined when kb_article has 'title' and 'summary' (else KeyError, see stage_create)
response_generation(customer_name, query, kb_article) ==
    [generated_response |->
        "Hello " \o customer_name \o ",\n\n"
        \o "Thank you for contacting us about your query: '" \o First30(query) \o "...'.\n\n"
        \o "Based on our knowledge base, here is a relevant article that might help: '"
        \o kb_article["title"] \o "'.\n\n"
        \o "Summary: " \o kb_article["summary"] \o "\n\n"
        \o "Regards,\nLangie Support Agent"]

----------------------------------------------------------------------------
(* AtlasMcpClient *)

extract_entities(query) ==
    [extracted_entities |->
        (IF HasProWidget(query) THEN <<"Pro-Widget X">> ELSE <<>>)
        \o (IF HasErrorCode42(query) THEN <<"error code 42">> ELSE <<>>)]

enrich_records(email) == [customer_sla |-> "Gold", historical_ticket_count |-> 5]

KbArticle42 ==
    [id |-> "KB-123",
     title |-> "Resolving Error Code 42 on Pro-Widget X",
     summary |-> "This error is typically caused by a firmware mismatch. To resolve, please follow the steps to update the firmware..."]

knowledge_base_search(entities) ==
    IF InSeq("error code 42", entities)
    THEN [retrieved_kb_article |-> KbArticle42]
    ELSE [retrieved_kb_article |-> EmptyDict]

escalation_decision(ticket_id) == [escalation_status |-> "Assigned to Tier 2 Support"]

update_ticket(ticket_id, st, assignee) == [ticket_update_status |-> "SUCCESS"]

close_ticket(ticket_id) == [ticket_close_status |-> "SUCCESS"]

trigger_notifications(email, message) == [notification_status |-> "SENT"]

execute_api_calls(email, message) == trigger_notifications(email, message)

----------------------------------------------------------------------------
(* Stages.  A stage takes and returns a record r:                          *)
(*   state  the dict it was handed,  log  the list under state['log'],     *)
(*   calls  the capability calls so far,  scores  the scores returned,     *)
(*   error  "none" or the exception the stage raised.                      *)
(* Statements are applied in source order; a KeyError ends the stage with  *)
(* the effects of the statements before it.                                *)

Has(r, k) == k \in DOMAIN r.state

Log(r, msg) == [r EXCEPT !.log = Append(@, msg)]

Call(r, op, args) == [r EXCEPT !.calls = Append(@, [op |-> op, args |-> args])]

Set(r, k, v) == [r EXCEPT !.state = Put(@, k, v)]

KeyError(k) == "KeyError: '" \o k \o "'"

Raise(r, e) == [r EXCEPT !.error = e]

stage_intake(r) == Log(r, "[v] STAGE: INTAKE - Payload accepted.")

\* stage_understand rebinding the log to a new list instead of appending
stage_understand_new_log(r) ==
    LET r1 == [r EXCEPT !.log = <<"[v] STAGE: UNDERSTAND">>]
    IN  IF ~Has(r1, "query") THEN Raise(r1, KeyError("query"))
        ELSE LET q  == r1.state["query"]
                 r2 == Call(r1, "parse_request_text", <<q>>)
                 r3 == Call(r2, "extract_entities", <<q>>)
             IN  Set(r3, "structured_data", Merge(parse_request_text(q), extract_entities(q)))

stage_understand(r) ==
    LET r1 == Log(r, "[v] STAGE: UNDERSTAND")
    IN  IF ~Has(r1, "query") THEN Raise(r1, KeyError("query"))
        ELSE LET q  == r1.state["query"]
                 r2 == Call(r1, "parse_request_text", <<q>>)
                 r3 == Call(r2, "extract_entities", <<q>>)
             IN  Set(r3, "structured_data", Merge(parse_request_text(q), extract_entities(q)))

\* stage_prepare storing the normalized id back into state['ticket_id']
stage_prepare_normalizes_in_place(r) ==
    LET r1 == Log(r, "[v] STAGE: PREPARE")
    IN  IF ~Has(r1, "ticket_id") THEN Raise(r1, KeyError("ticket_id"))
        ELSE LET r2 == Call(r1, "normalize_fields", <<r1.state["ticket_id"]>>)
             IN  IF ~Has(r2, "email") THEN Raise(r2, KeyError("email"))
                 ELSE LET r3 == Call(r2, "enrich_records", <<r2.state["email"]>>)
                      IN  IF ~Has(r3, "priority") THEN Raise(r3, KeyError("priority"))
                          ELSE IF ~Has(r3, "query") THEN Raise(r3, KeyError("query"))
                          ELSE LET r4 == Call(r3, "add_flags_calculations",
                                              <<r3.state["priority"], r3.state["query"]>>)
                               IN  Set(Set(r4, "enriched_data",
                                           Merge(Merge(normalize_fields(r4.state["ticket_id"]),
                                                       enrich_records(r4.state["email"])),
                                                 add_flags_calculations(r4.state["priority"],
                                                                        r4.state["query"]))),
                                       "ticket_id",
                                       normalize_fields(r4.state["ticket_id"])["normalized_ticket_id"])

stage_prepare(r) ==
    LET r1 == Log(r, "[v] STAGE: PREPARE")
    IN  IF ~Has(r1, "ticket_id") THEN Raise(r1, KeyError("ticket_id"))
        ELSE LET r2 == Call(r1, "normalize_fields", <<r1.state["ticket_id"]>>)
             IN  IF ~Has(r2, "email") THEN Raise(r2, KeyError("email"))
                 ELSE LET r3 == Call(r2, "enrich_records", <<r2.state["email"]>>)
                      IN  IF ~Has(r3, "priority") THEN Raise(r3, KeyError("priority"))
                          ELSE IF ~Has(r3, "query") THEN Raise(r3, KeyError("query"))
                          ELSE LET r4 == Call(r3, "add_flags_calculations",
                                              <<r3.state["priority"], r3.state["query"]>>)
                               IN  Set(r4, "enriched_data",
                                       Merge(Merge(normalize_fields(r4.state["ticket_id"]),
                                                   enrich_records(r4.state["email"])),
                                             add_flags_calculations(r4.state["priority"],
                                                                    r4.state["query"])))

\* stage_retrieve dropping the search result instead of storing it
stage_retrieve_no_write(r) ==
    LET r1 == Log(r, "[v] STAGE: RETRIEVE")
    IN  IF ~Has(r1, "structured_data") THEN Raise(r1, KeyError("structured_data"))
        ELSE IF "extracted_entities" \notin DOMAIN r1.state["structured_data"]
             THEN Raise(r1, KeyError("extracted_entities"))
        ELSE Call(r1, "knowledge_base_search",
                  <<r1.state["structured_data"]["extracted_entities"]>>)

stage_retrieve(r) ==
    LET r1 == Log(r, "[v] STAGE: RETRIEVE")
    IN  IF ~Has(r1, "structured_data") THEN Raise(r1, KeyError("structured_data"))
        ELSE IF "extracted_entities" \notin DOMAIN r1.state["structured_data"]
             THEN Raise(r1, KeyError("extracted_entities"))
        ELSE LET entities == r1.state["structured_data"]["extracted_entities"]
                 r2 == Call(r1, "knowledge_base_search", <<entities>>)
             IN  Set(r2, "retrieved_kb_article",
                     knowledge_base_search(entities)["retrieved_kb_article"])

\* the threshold taken exclusively
Sufficient_strict(score) == score > 90

\* line 191: score >= 90
Sufficient(score) == score >= 90

DecisionLog(score, decision) ==
    "  Decision Logic: Score is " \o ToString(score) \o ". " \o decision

\* stage_decide without **escalation_result in the decision
stage_decide_no_merge(r, score_result) ==
    LET r1 == Log(r, "[v] STAGE: DECIDE")
    IN  IF ~Has(r1, "retrieved_kb_article") THEN Raise(r1, KeyError("retrieved_kb_article"))
        ELSE LET r2 == Call(r1, "solution_evaluation", <<r1.state["retrieved_kb_article"]>>)
                 score == score_result["solution_score"]
                 r3 == [r2 EXCEPT !.scores = Append(@, score)]
             IN  IF Sufficient(score)
                 THEN Log(Set(r3, "decision", [score |-> score, outcome |-> "CREATE_RESPONSE"]),
                          DecisionLog(score, "Sufficient solution found. Proceed to create response."))
                 ELSE IF ~Has(r3, "ticket_id") THEN Raise(r3, KeyError("ticket_id"))
                 ELSE LET r4 == Call(r3, "escalation_decision", <<r3.state["ticket_id"]>>)
                      IN  Log(Set(r4, "decision", [score |-> score, outcome |-> "ESCALATE"]),
                              DecisionLog(score, "Solution score is low. Escalating to human agent."))

\* score_result is what solution_evaluation returned for state['retrieved_kb_article']
stage_decide(r, score_result) ==
    LET r1 == Log(r, "[v] STAGE: DECIDE")
    IN  IF ~Has(r1, "retrieved_kb_article") THEN Raise(r1, KeyError("retrieved_kb_article"))
        ELSE LET r2 == Call(r1, "solution_evaluation", <<r1.state["retrieved_kb_article"]>>)
                 score == score_result["solution_score"]
                 r3 == [r2 EXCEPT !.scores = Append(@, score)]
             IN  IF Sufficient(score)
                 THEN Log(Set(r3, "decision", [score |-> score, outcome |-> "CREATE_RESPONSE"]),
                          DecisionLog(score, "Sufficient solution found. Proceed to create response."))
                 ELSE IF ~Has(r3, "ticket_id") THEN Raise(r3, KeyError("ticket_id"))
                 ELSE LET r4 == Call(r3, "escalation_decision", <<r3.state["ticket_id"]>>)
                      IN  Log(Set(r4, "decision",
                                  Merge([score |-> score, outcome |-> "ESCALATE"],
                                        escalation_decision(r4.state["ticket_id"]))),
                              DecisionLog(score, "Solution score is low. Escalating to human agent."))

stage_create(r) ==
    LET r1 == Log(r, "[v] STAGE: CREATE")
    IN  IF ~Has(r1, "customer_name") THEN Raise(r1, KeyError("customer_name"))
        ELSE IF ~Has(r1, "query") THEN Raise(r1, KeyError("query"))
        ELSE IF ~Has(r1, "retrieved_kb_article") THEN Raise(r1, KeyError("retrieved_kb_article"))
        ELSE LET kb == r1.state["retrieved_kb_article"]
                 r2 == Call(r1, "response_generation",
                            <<r1.state["customer_name"], r1.state["query"], kb>>)
             IN  IF "title" \notin DOMAIN kb THEN Raise(r2, KeyError("title"))
                 ELSE IF "summary" \notin DOMAIN kb THEN Raise(r2, KeyError("summary"))
                 ELSE Set(Set(r2, "final_response",
                              response_generation(r2.state["customer_name"], r2.state["query"],
                                                  kb)["generated_response"]),
                          "final_status", "RESOLVED")

\* stage_update with the final_status of stage_create
stage_update_resolved(r) ==
    LET r1 == Log(r, "[v] STAGE: UPDATE")
    IN  IF ~Has(r1, "ticket_id") THEN Raise(r1, KeyError("ticket_id"))
        ELSE LET r2 == Call(r1, "update_ticket",
                            <<r1.state["ticket_id"], "Escalated", "Tier 2 Support">>)
             IN  Set(Set(r2, "final_response",
                         "This ticket has been escalated for human review."),
                     "final_status", "RESOLVED")

stage_update(r) ==
    LET r1 == Log(r, "[v] STAGE: UPDATE")
    IN  IF ~Has(r1, "ticket_id") THEN Raise(r1, KeyError("ticket_id"))
        ELSE LET r2 == Call(r1, "update_ticket",
                            <<r1.state["ticket_id"], "Escalated", "Tier 2 Support">>)
             IN  Set(Set(r2, "final_response",
                         "This ticket has been escalated for human review."),
                     "final_status", "ESCALATED")

\* stage_do with the arguments of execute_api_calls exchanged
stage_do_swapped_args(r) ==
    LET r1 == Log(r, "[v] STAGE: DO")
    IN  IF ~Has(r1, "email") THEN Raise(r1, KeyError("email"))
        ELSE IF ~Has(r1, "final_response") THEN Raise(r1, KeyError("final_response"))
        ELSE Call(Call(r1, "execute_api_calls",
                       <<r1.state["final_response"], r1.state["email"]>>),
                  "trigger_notifications", <<r1.state["final_response"], r1.state["email"]>>)

stage_do(r) ==
    LET r1 == Log(r, "[v] STAGE: DO")
    IN  IF ~Has(r1, "email") THEN Raise(r1, KeyError("email"))
        ELSE IF ~Has(r1, "final_response") THEN Raise(r1, KeyError("final_response"))
        ELSE Call(Call(r1, "execute_api_calls",
                       <<r1.state["email"], r1.state["final_response"]>>),
                  "trigger_notifications", <<r1.state["email"], r1.state["final_response"]>>)

\* stage_close recording the closure in final_status
stage_close_sets_status(r) ==
    LET r1 == Log(r, "[v] STAGE: CLOSE")
    IN  IF ~Has(r1, "ticket_id") THEN Raise(r1, KeyError("ticket_id"))
        ELSE Set(Call(r1, "close_ticket", <<r1.state["ticket_id"]>>), "final_status", "CLOSED")

stage_close(r) ==
    LET r1 == Log(r, "[v] STAGE: CLOSE")
    IN  IF ~Has(r1, "ticket_id") THEN Raise(r1, KeyError("ticket_id"))
        ELSE Call(r1, "close_ticket", <<r1.state["ticket_id"]>>)

stage_complete(r) == Log(r, "[v] STAGE: COMPLETE - Workflow finished.")

----------------------------------------------------------------------------
(* Routers *)

\* route_after_decision testing both outcomes and passing anything else on as the label
route_after_decision_no_default(st) ==
    IF st["decision"]["outcome"] = "CREATE_RESPONSE" THEN "CREATE"
    ELSE IF st["decision"]["outcome"] = "ESCALATE" THEN "UPDATE"
    ELSE st["decision"]["outcome"]

route_after_decision(st) ==
    IF st["decision"]["outcome"] = "CREATE_RESPONSE" THEN "CREATE" ELSE "UPDATE"

\* route_after_do without the escalation branch
route_after_do_always_close(st) == "CLOSE"

route_after_do(st) ==
    IF st["final_status"] = "RESOLVED" THEN "CLOSE" ELSE END

----------------------------------------------------------------------------
(* Graph assembly *)

Nodes == {"INTAKE", "UNDERSTAND", "PREPARE", "RETRIEVE", "DECIDE",
          "CREATE", "UPDATE", "DO", "CLOSE", "COMPLETE"}

EntryPoint == "INTAKE"

\* the static edges with CLOSE wired to the terminal marker
Edges_close_to_end ==
    [INTAKE |-> "UNDERSTAND", UNDERSTAND |-> "PREPARE", PREPARE |-> "RETRIEVE",
     RETRIEVE |-> "DECIDE", CREATE |-> "DO", UPDATE |-> "DO",
     CLOSE |-> END, COMPLETE |-> END]

\* the static edges with CREATE wired past DO
Edges_create_skips_do ==
    [INTAKE |-> "UNDERSTAND", UNDERSTAND |-> "PREPARE", PREPARE |-> "RETRIEVE",
     RETRIEVE |-> "DECIDE", CREATE |-> "CLOSE", UPDATE |-> "DO",
     CLOSE |-> "COMPLETE", COMPLETE |-> END]

\* the static edges with UPDATE wired to a node that was never added
Edges_dangling ==
    [INTAKE |-> "UNDERSTAND", UNDERSTAND |-> "PREPARE", PREPARE |-> "RETRIEVE",
     RETRIEVE |-> "DECIDE", CREATE |-> "DO", UPDATE |-> "NOTIFY",
     CLOSE |-> "COMPLETE", COMPLETE |-> END]

\* workflow.add_edge(source, target)
Edges ==
    [INTAKE |-> "UNDERSTAND", UNDERSTAND |-> "PREPARE", PREPARE |-> "RETRIEVE",
     RETRIEVE |-> "DECIDE", CREATE |-> "DO", UPDATE |-> "DO",
     CLOSE |-> "COMPLETE", COMPLETE |-> END]

\* the DECIDE table with UPDATE wired back to RETRIEVE (a retry loop)
DecideTable_back_to_retrieve == [CREATE |-> "CREATE", UPDATE |-> "RETRIEVE"]

\* workflow.add_conditional_edges("DECIDE", route_after_decision, {...})
DecideTable == [CREATE |-> "CREATE", UPDATE |-> "UPDATE"]

\* the DO table keyed by the name END instead of the value of END
DoTable_end_name == [CLOSE |-> "CLOSE", END |-> END]

\* workflow.add_conditional_edges("DO", route_after_do, {...})
DoTable == [CLOSE |-> "CLOSE", __end__ |-> END]

\* the graph as assembled by lines 298-347
WorkflowDefinition ==
    [nodes |-> Nodes, entry |-> EntryPoint, edges |-> Edges,
     decide |-> DecideTable, do |-> DoTable]

Unhandled == "UnhandledRouteLabel"

\* the target the compiled graph moves to after node n returned the state st
Target(n, st) ==
    CASE n = "DECIDE" ->
            LET label == route_after_decision(st)
            IN  IF label \in DOMAIN workflow.decide THEN workflow.decide[label] ELSE Unhandled
      [] n = "DO" ->
            LET label == route_after_do(st)
            IN  IF label \in DOMAIN workflow.do THEN workflow.do[label] ELSE Unhandled
      [] OTHER -> workflow.edges[n]

----------------------------------------------------------------------------
(* app.invoke: the compiled graph run on the caller's input *)

IdentityFields == {"customer_name", "email", "query", "priority", "ticket_id"}

\* state['log'] holds a reference to the list object whose contents are log
LogRef == "<list>"

FullInputs ==
    {[customer_name |-> "Alice Wonder", email |-> "alice.w@example.com",
      query |-> q, priority |-> p, ticket_id |-> t, log |-> LogRef] :
        q \in Queries, p \in Priorities, t \in TicketIds}

\* the caller may leave identity fields out of the payload; 'log' is initialised to []
Inputs ==
    {[k \in present \cup {"log"} |-> full[k]] :
        full \in FullInputs, present \in SUBSET IdentityFields}

InitWith(p) ==
    /\ input \in Inputs
    /\ provider = p
    /\ state = input
    /\ log = <<>>
    /\ calls = <<>>
    /\ scores = <<>>
    /\ workflow = WorkflowDefinition
    /\ node = workflow.entry
    /\ status = "running"
    /\ error = "none"
    /\ executed = <<>>
    /\ outcome = <<>>
    /\ runNo = 1
    /\ reused = FALSE
    /\ runs = <<>>

Init == InitWith("shipped")

InitDouble == InitWith("double")

Run == [state |-> state, log |-> log, calls |-> calls, scores |-> scores, error |-> "none"]

\* an exception leaves app.invoke: nothing is returned, the node's writes are not applied
Raised(e) ==
    /\ status' = "failed"
    /\ error' = e
    /\ node' = node
    /\ outcome' = Append(outcome, [kind |-> "raise", error |-> e, reused |-> reused])

\* the engine ran the stage of node n with result res, then followed n's edge
Step(n, res) ==
    /\ node = n
    /\ status = "running"
    /\ executed' = Append(executed, n)
    /\ log' = res.log
    /\ calls' = res.calls
    /\ scores' = res.scores
    /\ IF res.error # "none"
       THEN state' = state /\ Raised(res.error)
       ELSE /\ state' = res.state
            /\ LET t == Target(n, res.state)
               IN  IF t = Unhandled
                   THEN Raised(Unhandled)
                   ELSE /\ node' = t
                        /\ error' = "none"
                        /\ status' = IF t = END THEN "done" ELSE "running"
                        /\ outcome' = IF t = END
                                      THEN Append(outcome, [kind |-> "return",
                                                            value |-> res.state,
                                                            log |-> res.log,
                                                            reused |-> reused])
                                      ELSE outcome
    /\ UNCHANGED <<input, provider, runNo, reused, workflow, runs>>

\* the scores the scoring capability may return for the article in the state
ScoreResults ==
    IF provider = "shipped"
    THEN {solution_evaluation(IF "retrieved_kb_article" \in DOMAIN state
                              THEN state["retrieved_kb_article"]
                              ELSE EmptyDict)}
    ELSE {[solution_score |-> s] : s \in Scores}

INTAKE == Step("INTAKE", stage_intake(Run))

UNDERSTAND == Step("UNDERSTAND", stage_understand(Run))

PREPARE == Step("PREPARE", stage_prepare(Run))

RETRIEVE == Step("RETRIEVE", stage_retrieve(Run))

DECIDE == \E score_result \in ScoreResults : Step("DECIDE", stage_decide(Run, score_result))

CREATE == Step("CREATE", stage_create(Run))

UPDATE == Step("UPDATE", stage_update(Run))

DO == Step("DO", stage_do(Run))

CLOSE == Step("CLOSE", stage_close(Run))

COMPLETE == Step("COMPLETE", stage_complete(Run))

Next ==
    \/ INTAKE
    \/ UNDERSTAND
    \/ PREPARE
    \/ RETRIEVE
    \/ DECIDE
    \/ CREATE
    \/ UPDATE
    \/ DO
    \/ CLOSE
    \/ COMPLETE

Spec == Init /\ [][Next]_vars

\* the same program with the scoring capability replaced by a double that may
\* return any score of Scores
SpecDouble == InitDouble /\ [][Next]_vars

\* the caller invokes the app again once a run has ended: on the very dict it
\* passed before (whose 'log' list the stages appended to), or on a fresh equal copy
Reinvoke(fresh) ==
    /\ status \in {"done", "failed"}
    /\ runNo < MaxRuns
    /\ runNo' = runNo + 1
    /\ reused' = ~fresh
    /\ state' = input
    /\ log' = IF fresh THEN <<>> ELSE log
    /\ calls' = <<>>
    /\ scores' = <<>>
    /\ node' = workflow.entry
    /\ status' = "running"
    /\ error' = "none"
    /\ executed' = <<>>
    /\ UNCHANGED <<input, provider, outcome, workflow, runs>>

NextRerun ==
    \/ Next
    \/ \E fresh \in BOOLEAN : Reinvoke(fresh)

SpecRerun == Init /\ [][NextRerun]_vars

----------------------------------------------------------------------------
(* Several app.invoke calls in flight on the one compiled app, each on its *)
(* own payload (its own dict and its own log list), their nodes executed   *)
(* in any interleaving.  A run is a record c of what the single-run        *)
(* variables hold.                                                         *)

\* the stage function registered for node n (workflow.add_node), applied to r
StageOf(n, r) ==
    CASE n = "INTAKE"     -> stage_intake(r)
      [] n = "UNDERSTAND" -> stage_understand(r)
      [] n = "PREPARE"    -> stage_prepare(r)
      [] n = "RETRIEVE"   -> stage_retrieve(r)
      [] n = "DECIDE"     -> stage_decide(r, solution_evaluation(
                                 IF "retrieved_kb_article" \in DOMAIN r.state
                                 THEN r.state["retrieved_kb_article"] ELSE EmptyDict))
      [] n = "CREATE"     -> stage_create(r)
      [] n = "UPDATE"     -> stage_update(r)
      [] n = "DO"         -> stage_do(r)
      [] n = "CLOSE"      -> stage_close(r)
      [] n = "COMPLETE"   -> stage_complete(r)

\* app.invoke(payload) about to run the entry node
Started(payload) ==
    [input |-> payload, state |-> payload, log |-> <<>>, calls |-> <<>>, scores |-> <<>>,
     node |-> workflow.entry, status |-> "running", error |-> "none", executed |-> <<>>]

\* the run c after the engine executed its current node and followed the edge
Advance(c) ==
    LET res == StageOf(c.node, [state |-> c.state, log |-> c.log, calls |-> c.calls,
                                scores |-> c.scores, error |-> "none"])
        ran == [c EXCEPT !.log = res.log, !.calls = res.calls, !.scores = res.scores,
                         !.executed = Append(@, c.node)]
    IN  IF res.error # "none"
        THEN [ran EXCEPT !.status = "failed", !.error = res.error]
        ELSE LET t == Target(c.node, res.state)
             IN  IF t = Unhandled
                 THEN [ran EXCEPT !.state = res.state, !.status = "failed", !.error = Unhandled]
                 ELSE [ran EXCEPT !.state = res.state, !.node = t,
                                  !.status = IF t = END THEN "done" ELSE "running"]

\* the payloads of the runs in flight: one ticket each, with or without email
ConcurrentInputs(ticket) ==
    {[k \in (DOMAIN full) \ absent |-> full[k]] :
        full \in {f \in FullInputs : f["ticket_id"] = ticket /\ f["priority"] = 4},
        absent \in {{}, {"email"}}}

InitConcurrent ==
    /\ workflow = WorkflowDefinition
    /\ runs \in {<<Started(a), Started(b)>> :
                    a \in ConcurrentInputs("TKT-78901"), b \in ConcurrentInputs(" tkt-42 ")}
    /\ provider = "shipped"
    /\ input = EmptyDict
    /\ state = EmptyDict
    /\ log = <<>>
    /\ calls = <<>>
    /\ scores = <<>>
    /\ node = END
    /\ status = "idle"
    /\ error = "none"
    /\ executed = <<>>
    /\ outcome = <<>>
    /\ runNo = 0
    /\ reused = FALSE

\* a run whose stage appends to one list shared by all runs
RunNode_shared_log(i) ==
    /\ runs[i].status = "running"
    /\ LET after == Advance(runs[i])
           added == SubSeq(after.log, Len(runs[i].log) + 1, Len(after.log))
       IN  runs' = [j \in DOMAIN runs |->
                       IF j = i THEN after ELSE [runs[j] EXCEPT !.log = @ \o added]]
    /\ UNCHANGED <<input, provider, state, log, calls, scores, node, status, error,
                   executed, outcome, runNo, reused, workflow>>

\* the engine executes the current node of run i; the other runs are not touched
RunNode(i) ==
    /\ runs[i].status = "running"
    /\ runs' = [runs EXCEPT ![i] = Advance(runs[i])]
    /\ UNCHANGED <<input, provider, state, log, calls, scores, node, status, error,
                   executed, outcome, runNo, reused, workflow>>

NextConcurrent == \E i \in DOMAIN runs : RunNode(i)

SpecConcurrent == InitConcurrent /\ [][NextConcurrent]_vars

\* app.invoke runs its loop to the end: a node that can be executed is executed
SpecDoubleFair == InitDouble /\ [][Next]_vars /\ WF_vars(Next)

----------------------------------------------------------------------------
(* The routers called on their own, on states a run need not produce: a    *)
(* decision with any outcome value, a final_status with any value.         *)
(* outcome records what each call returned and the state it left behind.   *)

Outcomes == {"CREATE_RESPONSE", "ESCALATE", "create_response", "RETRY", ""}

FinalStatuses == {"RESOLVED", "ESCALATED", "CLOSED"}

RouterStates ==
    {[log |-> LogRef, decision |-> [score |-> sc, outcome |-> o]] :
        sc \in Scores, o \in Outcomes}
    \cup
    {[log |-> LogRef, decision |-> [score |-> sc, outcome |-> o], final_status |-> fs] :
        sc \in Scores, o \in Outcomes, fs \in FinalStatuses}

InitRouters ==
    /\ workflow = WorkflowDefinition
    /\ state \in RouterStates
    /\ input = state
    /\ provider = "shipped"
    /\ log = <<>>
    /\ calls = <<>>
    /\ scores = <<>>
    /\ node = END
    /\ status = "idle"
    /\ error = "none"
    /\ executed = <<>>
    /\ outcome = <<>>
    /\ runNo = 0
    /\ reused = FALSE
    /\ runs = <<>>

CallRouteAfterDecision ==
    /\ status = "idle"
    /\ outcome = <<>>
    /\ "decision" \in DOMAIN state
    /\ outcome' = <<[kind |-> "label", router |-> "route_after_decision",
                     label |-> route_after_decision(state), state |-> state]>>
    /\ UNCHANGED <<input, provider, state, log, calls, scores, node, status, error,
                   executed, runNo, reused, workflow, runs>>

CallRouteAfterDo ==
    /\ status = "idle"
    /\ outcome = <<>>
    /\ "final_status" \in DOMAIN state
    /\ outcome' = <<[kind |-> "label", router |-> "route_after_do",
                     label |-> route_after_do(state), state |-> state]>>
    /\ UNCHANGED <<input, provider, state, log, calls, scores, node, status, error,
                   executed, runNo, reused, workflow, runs>>

NextRouters ==
    \/ CallRouteAfterDecision
    \/ CallRouteAfterDo

SpecRouters == InitRouters /\ [][NextRouters]_vars

----------------------------------------------------------------------------
(* Vocabulary of the properties *)

Last(s) == s[Len(s)]

Ran(n) == InSeq(n, executed)

\* the stage of node n was invoked and returned
Completed(n) == Ran(n) /\ ~(status = "failed" /\ Last(executed) = n)

Present(k) == k \in DOMAIN state

FinalStatus == IF Present("final_status") THEN state["final_status"] ELSE "unset"

Called(op) == \E i \in DOMAIN calls : calls[i].op = op

ResolvePath == <<"INTAKE", "UNDERSTAND", "PREPARE", "RETRIEVE", "DECIDE",
                 "CREATE", "DO", "CLOSE", "COMPLETE">>

EscalatePath == <<"INTAKE", "UNDERSTAND", "PREPARE", "RETRIEVE", "DECIDE", "UPDATE", "DO">>

\* the stages of executed that follow the first occurrence of n
After(n) ==
    LET i == CHOOSE j \in DOMAIN executed : executed[j] = n /\ \A k \in 1..(j - 1) : executed[k] # n
    IN  SubSeq(executed, i + 1, Len(executed))

\* the log entry that opens the stage of node n
Banner(n) ==
    CASE n = "INTAKE"   -> "[v] STAGE: INTAKE - Payload accepted."
      [] n = "COMPLETE" -> "[v] STAGE: COMPLETE - Workflow finished."
      [] OTHER          -> "[v] STAGE: " \o n

\* the positions of the stage banners of path appear in lg in increasing order
RECURSIVE BannersInOrder(_, _)
BannersInOrder(path, lg) ==
    IF path = <<>> THEN TRUE
    ELSE \E i \in DOMAIN lg :
            /\ lg[i] = Banner(Head(path))
            /\ BannersInOrder(Tail(path), SubSeq(lg, i + 1, Len(lg)))

----------------------------------------------------------------------------
(* C1: in every completed run final_status is RESOLVED iff CREATE was      *)
(* executed and ESCALATED iff UPDATE was executed, and exactly one of      *)
(* CREATE and UPDATE was executed.                                         *)
C1_StatusMatchesBranch ==
    status = "done" =>
        /\ (FinalStatus = "RESOLVED") <=> Ran("CREATE")
        /\ (FinalStatus = "ESCALATED") <=> Ran("UPDATE")
        /\ Ran("CREATE") # Ran("UPDATE")

C1_Witness ==
    status = "done" /\ Ran("UPDATE") /\ ~Ran("CREATE") /\ FinalStatus = "ESCALATED"

(* C2: after DECIDE, decision.score is the score the scoring capability    *)
(* returned, and decision.outcome is CREATE_RESPONSE iff that score is at  *)
(* least 90 and ESCALATE iff it is below 90 (90 creates, 89 escalates).    *)
C2_Threshold ==
    Present("decision") =>
        /\ Len(scores) = 1
        /\ state["decision"]["score"] = scores[1]
        /\ (state["decision"]["outcome"] = "CREATE_RESPONSE") <=> (scores[1] >= 90)
        /\ (state["decision"]["outcome"] = "ESCALATE") <=> (scores[1] < 90)

C2_Witness ==
    /\ Present("decision")
    /\ scores = <<90>>
    /\ state["decision"]["outcome"] = "CREATE_RESPONSE"

(* C3: once DO has returned, a RESOLVED run goes on to CLOSE, then         *)
(* COMPLETE, and then ends; an ESCALATED run ends right after DO, executes *)
(* neither CLOSE nor COMPLETE and never calls close_ticket.                *)
C3_AfterDo ==
    /\ (Completed("DO") /\ FinalStatus = "RESOLVED") =>
          /\ status # "failed"
          /\ \/ After("DO") = <<>> /\ node = "CLOSE" /\ status = "running"
             \/ After("DO") = <<"CLOSE">> /\ node = "COMPLETE" /\ status = "running"
             \/ After("DO") = <<"CLOSE", "COMPLETE">> /\ node = END /\ status = "done"
    /\ (Completed("DO") /\ FinalStatus = "ESCALATED") =>
          /\ status = "done"
          /\ node = END
          /\ After("DO") = <<>>
    /\ FinalStatus = "ESCALATED" =>
          /\ ~Ran("CLOSE")
          /\ ~Ran("COMPLETE")
          /\ ~Called("close_ticket")

C3_Witness ==
    /\ status = "done"
    /\ FinalStatus = "ESCALATED"
    /\ Last(executed) = "DO"
    /\ Called("trigger_notifications")

(* C4: the log is append-only: across every stage execution the log before *)
(* it is a prefix of the log after it, and the log after it is longer by   *)
(* at least one entry.                                                     *)
C4_LogAppendOnly ==
    [][(executed' # executed) =>
          /\ IsPrefix(log, log')
          /\ Len(log') >= Len(log) + 1]_vars

C4_Witness ==
    /\ Completed("DECIDE")
    /\ Len(executed) = 5
    /\ Len(log) = 6
    /\ log[1] = Banner("INTAKE")

(* C5: determinism: two runs of the engine on an identical initial state,  *)
(* with the deterministic shipped capabilities, return identical final     *)
(* states and identical logs, also when the second run is started from the *)
(* very initial-state value passed to the first.                           *)
C5_Determinism ==
    \A i, j \in DOMAIN outcome :
        (outcome[i].kind = "return" /\ outcome[j].kind = "return") =>
            /\ outcome[i].value = outcome[j].value
            /\ outcome[i].log = outcome[j].log

\* what C6 says of a run: the resolve path is being followed, and was followed to the end
ResolvePathTaken ==
    /\ status # "failed"
    /\ IsPrefix(executed, ResolvePath)
    /\ BannersInOrder(executed, log)
    /\ Len(log) = Len(executed) + 1
    /\ status = "done" =>
          /\ executed = ResolvePath
          /\ FinalStatus = "RESOLVED"

EntitiesEmpty ==
    /\ Present("structured_data")
    /\ state["structured_data"]["extracted_entities"] = <<>>

(* C7: when extracted_entities is empty, RETRIEVE writes an empty          *)
(* retrieved_kb_article, DECIDE still executes on it and scores it below   *)
(* 90, and the run takes the escalation path (UPDATE, DO, end) with        *)
(* final_status = ESCALATED.                                               *)
C7_NoMatchEscalates ==
    EntitiesEmpty =>
        /\ Completed("RETRIEVE") =>
              /\ Present("retrieved_kb_article")
              /\ state["retrieved_kb_article"] = EmptyDict
              /\ status # "failed"
              /\ IsPrefix(executed, EscalatePath)
        /\ Completed("DECIDE") =>
              /\ scores # <<>>
              /\ scores[1] < 90
              /\ state["decision"]["outcome"] = "ESCALATE"
        /\ (Completed("RETRIEVE") /\ status = "done") =>
              /\ executed = EscalatePath
              /\ FinalStatus = "ESCALATED"

C7_Witness ==
    /\ EntitiesEmpty
    /\ status = "done"
    /\ state["retrieved_kb_article"] = EmptyDict
    /\ executed = EscalatePath
    /\ FinalStatus = "ESCALATED"

(* C8: escalation_decision is invoked, in DECIDE, exactly when the score   *)
(* is below 90, and its result is merged into decision:                    *)
(* decision.escalation_status is present iff decision.outcome is ESCALATE, *)
(* and on that path the log of the completed run ends with the DO entry.   *)
C8_EscalationAssignment ==
    /\ ~Ran("DECIDE") => ~Called("escalation_decision")
    /\ Cardinality({i \in DOMAIN calls : calls[i].op = "escalation_decision"}) <= 1
    /\ Present("decision") =>
          /\ Called("escalation_decision") <=> (scores[1] < 90)
          /\ ("escalation_status" \in DOMAIN state["decision"])
                <=> (state["decision"]["outcome"] = "ESCALATE")
          /\ state["decision"]["outcome"] = "ESCALATE" =>
                /\ state["decision"]["escalation_status"]
                      = escalation_decision(state["ticket_id"])["escalation_status"]
                /\ status # "failed"
                /\ status = "done" => Last(log) = Banner("DO")

C8_Witness ==
    /\ status = "done"
    /\ scores = <<89>>
    /\ state["decision"]["outcome"] = "ESCALATE"
    /\ "escalation_status" \in DOMAIN state["decision"]
    /\ Last(log) = Banner("DO")

(* C9: a stage whose input requirements the state does not meet fails      *)
(* before it executes: the failing step appends no log entry, writes no    *)
(* state field and invokes no capability.                                  *)
C9_FailsBeforeStageRuns ==
    [][(status = "running" /\ status' = "failed") =>
          /\ log' = log
          /\ calls' = calls
          /\ state' = state]_vars

(* C10: when a stage fails the run is aborted, no later stage executes,    *)
(* and the caller receives, with the error, the partial state and the log  *)
(* accumulated up to the failure.                                          *)
C10_PartialStateReturned ==
    status = "failed" =>
        /\ ~ENABLED Next
        /\ LET got == Last(outcome)
           IN  /\ "value" \in DOMAIN got
               /\ "log" \in DOMAIN got
               /\ got.value = state
               /\ got.log = log

\* the run started on payload after k nodes, executed with no other run around
RECURSIVE AloneAfter(_, _)
AloneAfter(payload, k) ==
    IF k = 0 THEN Started(payload)
    ELSE LET c == AloneAfter(payload, k - 1)
         IN  IF c.status = "running" THEN Advance(c) ELSE c

WrittenFields == {"structured_data", "enriched_data", "retrieved_kb_article",
                  "decision", "final_response", "final_status"}

Writers(f) ==
    CASE f = "structured_data"       -> {"UNDERSTAND"}
      [] f = "enriched_data"         -> {"PREPARE"}
      [] f = "retrieved_kb_article"  -> {"RETRIEVE"}
      [] f = "decision"              -> {"DECIDE"}
      [] f = "final_response"        -> {"CREATE", "UPDATE"}
      [] f = "final_status"          -> {"CREATE", "UPDATE"}

\* how many stages of the set ns have been executed
TimesRan(ns) == Cardinality({i \in DOMAIN executed : executed[i] \in ns})

(* C12: in a run each of structured_data, enriched_data,                   *)
(* retrieved_kb_article, decision, final_response and final_status is      *)
(* written at most once and keeps its value through every later stage;     *)
(* final_status is written exactly once in every completed run.            *)
C12_WriteOnce ==
    [][\A f \in WrittenFields :
          /\ f \in DOMAIN state => (f \in DOMAIN state' /\ state'[f] = state[f])
          /\ (f \notin DOMAIN state /\ f \in DOMAIN state') => Last(executed') \in Writers(f)
          /\ TimesRan(Writers(f))' <= 1
          /\ (status' = "done" /\ f = "final_status") =>
                (TimesRan(Writers(f))' = 1 /\ f \in DOMAIN state')]_vars

C12_Witness ==
    /\ status = "done"
    /\ WrittenFields \subseteq DOMAIN state
    /\ Ran("CLOSE")
    /\ state["final_status"] = "RESOLVED"

\* the nodes the engine can move to from node n of the graph g
Successors(g, n) ==
    CASE n = "DECIDE"           -> {g.decide[l] : l \in DOMAIN g.decide}
      [] n = "DO"               -> {g.do[l] : l \in DOMAIN g.do}
      [] n \in DOMAIN g.edges   -> {g.edges[n]}
      [] OTHER                  -> {}

\* the nodes reachable from the set of nodes from in at most k moves
RECURSIVE ReachableIn(_, _, _)
ReachableIn(g, from, k) ==
    IF k = 0 THEN from
    ELSE LET next == from \cup UNION {Successors(g, n) : n \in from \cap g.nodes}
         IN  IF next = from THEN from ELSE ReachableIn(g, next, k - 1)

ReachableFrom(g, from) == ReachableIn(g, from, Cardinality(g.nodes) + 1)

Acyclic(g) == \A n \in g.nodes : n \notin ReachableFrom(g, Successors(g, n))

NoRepeat(s) == \A i, j \in DOMAIN s : s[i] = s[j] => i = j

(* C13: no stage is executed more than once in a run: the graph of the     *)
(* static edges and the two routers' tables has no cycle, so every path    *)
(* from INTAKE visits each of the 10 stages at most once.                  *)
C13_NoStageTwice ==
    /\ NoRepeat(executed)
    /\ Acyclic(workflow)
    /\ Cardinality(workflow.nodes) = 10

C13_Witness ==
    /\ status = "done"
    /\ Len(executed) = 9
    /\ NoRepeat(executed)
    /\ executed[9] = "COMPLETE"

(* C14: the router after DECIDE returns CREATE iff decision.outcome is     *)
(* CREATE_RESPONSE and UPDATE for every other outcome value, values other  *)
(* than ESCALATE included, and leaves the state as it was.                 *)
C14_RouterDefault ==
    \A i \in DOMAIN outcome :
        outcome[i].router = "route_after_decision" =>
            /\ (outcome[i].label = "CREATE") <=> (input["decision"]["outcome"] = "CREATE_RESPONSE")
            /\ (outcome[i].label = "UPDATE") <=> (input["decision"]["outcome"] # "CREATE_RESPONSE")
            /\ outcome[i].state = input
            /\ state = input

C14_Witness ==
    /\ outcome # <<>>
    /\ outcome[1].router = "route_after_decision"
    /\ input["decision"]["outcome"] = "RETRY"
    /\ outcome[1].label = "UPDATE"

\* every target of the graph g is a declared node or the terminal marker
TargetsDeclared(g) ==
    /\ \A n \in DOMAIN g.edges : n \in g.nodes /\ g.edges[n] \in g.nodes \cup {END}
    /\ \A l \in DOMAIN g.decide : g.decide[l] \in g.nodes \cup {END}
    /\ \A l \in DOMAIN g.do : g.do[l] \in g.nodes \cup {END}

(* C15: the assembled workflow is well-formed: the entry node INTAKE is a  *)
(* declared node, every static edge target and every target of both        *)
(* conditional tables is a declared node or the terminal marker, and each  *)
(* of the 10 declared nodes is reachable from the entry node.              *)
C15_WellFormed ==
    /\ workflow.entry = "INTAKE"
    /\ workflow.entry \in workflow.nodes
    /\ TargetsDeclared(workflow)
    /\ Cardinality(workflow.nodes) = 10
    /\ workflow.nodes \subseteq ReachableFrom(workflow, {workflow.entry})

C15_Witness ==
    /\ status = "done"
    /\ workflow = WorkflowDefinition
    /\ END \in ReachableFrom(workflow, {workflow.entry})
    /\ \A n \in DOMAIN executed : executed[n] \in workflow.nodes

\* the state fields the stage of node n owns
Owns(n) ==
    CASE n = "UNDERSTAND" -> {"structured_data"}
      [] n = "PREPARE"    -> {"enriched_data"}
      [] n = "RETRIEVE"   -> {"retrieved_kb_article"}
      [] n = "DECIDE"     -> {"decision"}
      [] n = "CREATE"     -> {"final_response", "final_status"}
      [] n = "UPDATE"     -> {"final_response", "final_status"}
      [] OTHER            -> {}

\* the keys whose presence or value differs between the dicts a and b
Differing(a, b) ==
    {k \in DOMAIN a \cup DOMAIN b :
        \/ k \notin DOMAIN a
        \/ k \notin DOMAIN b
        \/ a[k] # b[k]}

(* C16: each stage changes only the log and the fields it owns; INTAKE,    *)
(* DO, CLOSE and COMPLETE change nothing but the log; the ticket identity  *)
(* fields keep the values of the initial state in every state of the run.  *)
C16_FieldOwnership ==
    [][/\ Differing(state, state') \subseteq Owns(node)
       /\ Differing(state', input) \cap (IdentityFields \cup {"log"}) = {}]_vars

C16_Witness ==
    /\ status = "done"
    /\ Ran("CLOSE")
    /\ Differing(state, input) = WrittenFields
    /\ input["ticket_id"] = " tkt-42 "

\* the state fields the stage of node n requires (the stage catalogue's preconditions)
Requires(n) ==
    CASE n = "UNDERSTAND" -> {"query"}
      [] n = "PREPARE"    -> {"ticket_id", "email", "priority", "query"}
      [] n = "RETRIEVE"   -> {"structured_data"}
      [] n = "DECIDE"     -> {"retrieved_kb_article"}
      [] n = "CREATE"     -> {"customer_name", "query", "retrieved_kb_article"}
      [] n = "UPDATE"     -> {"ticket_id"}
      [] n = "DO"         -> {"email", "final_response"}
      [] n = "CLOSE"      -> {"ticket_id"}
      [] OTHER            -> {}

C18_Termination ==
    /\ [](Len(executed) <= 9)
    /\ [](status = "done" =>
             /\ node = END
             /\ \/ FinalStatus = "RESOLVED" /\ Len(executed) = 9
                \/ FinalStatus = "ESCALATED" /\ Len(executed) = 7)
    /\ [](status = "running" => (node \in workflow.nodes /\ ENABLED Next))
    /\ <>(status \in {"done", "failed"})
    /\ [](status = "failed" => error # "none")

C18_Witness ==
    /\ status = "done"
    /\ node = END
    /\ FinalStatus = "ESCALATED"
    /\ Len(executed) = 7

(* C19: UnhandledRouteLabel cannot occur: in every reachable state the     *)
(* label route_after_decision returns is a key of the DECIDE table (CREATE *)
(* or UPDATE) and the label route_after_do returns is a key of the DO      *)
(* table (CLOSE or the terminal marker), so every routing step resolves.   *)
C19_LabelsHandled ==
    /\ Present("decision") =>
          /\ route_after_decision(state) \in DOMAIN workflow.decide
          /\ route_after_decision(state) \in {"CREATE", "UPDATE"}
          /\ Completed("DECIDE") => node \in {"CREATE", "UPDATE", "DO", "CLOSE", "COMPLETE", END}
    /\ Present("final_status") =>
          /\ route_after_do(state) \in DOMAIN workflow.do
          /\ route_after_do(state) \in {"CLOSE", END}
    /\ error # Unhandled

C19_Witness ==
    /\ Completed("DO")
    /\ FinalStatus = "ESCALATED"
    /\ route_after_do(state) = END
    /\ route_after_decision(state) = "UPDATE"
    /\ status = "done"

\* the positions in calls of the invocations of op
CallsOf(op) == {i \in DOMAIN calls : calls[i].op = op}

(* C20: in every completed run the notification capability is invoked      *)
(* exactly once, after CREATE or UPDATE wrote final_response and before    *)
(* any close_ticket call, with the run's final_response as its message, on *)
(* the resolve path and on the escalation path alike.                      *)
C20_NotifyOnce ==
    /\ status = "done" => Cardinality(CallsOf("trigger_notifications")) = 1
    /\ Cardinality(CallsOf("trigger_notifications")) <= 1
    /\ \A i \in CallsOf("trigger_notifications") :
          /\ Present("final_response")
          /\ calls[i].args[2] = state["final_response"]
          /\ \E j \in CallsOf("response_generation") \cup CallsOf("update_ticket") : j < i
          /\ \A j \in CallsOf("close_ticket") : i < j
    /\ CallsOf("close_ticket") # {} => CallsOf("trigger_notifications") # {}

C20_Witness ==
    /\ status = "done"
    /\ FinalStatus = "RESOLVED"
    /\ Cardinality(CallsOf("trigger_notifications")) = 1
    /\ Cardinality(CallsOf("close_ticket")) = 1

====
